---- MODULE Spec2Model ----
(***************************************************************************)
(* State-machine model of the three teaching examples of the repository:   *)
(*   biblioteca.py  (Libro, Miembro, Prestamo, Multa, Biblioteca)          *)
(*   hotel.py       (Habitacion, Reserva, Hotel)                           *)
(*   tienda.py      (Producto, ItemCarrito, CarritoCompras, Pedido, Tienda)*)
(* The three files are independent scripts that share no state: a run      *)
(* executes one of them, recorded in `programa`.  A run is a sequence of    *)
(* at most MaxLlamadas calls made by the caller on the registry and on the *)
(* objects it holds, with arguments drawn from small sets.                 *)
(*                                                                         *)
(* Time is counted in ticks, TicksPorDia ticks to a day, so that the       *)
(* whole-day truncation of timedelta.days is visible.  Money is counted in *)
(* centavos (TARIFA_DIARIA = 1.50 is 150).  Attributes that no operation   *)
(* reads (names, e-mail, fecha_prestamo, fecha_reserva, fecha_pedido,      *)
(* fecha_creacion) are left out.  An ItemCarrito is an object that a cart   *)
(* and an order can both hold: each line carries the identity `ref` of its *)
(* object, and a change of the object is made in every list that holds it. *)
(***************************************************************************)
EXTENDS Integers, Sequences, FiniteSets, TLC

VARIABLES
    programa,            \* which script (or which class under test) is running
    llamadas,            \* number of calls made so far
    ult,                 \* the last call: its name, what it returned, its arguments
    hist,                \* the calls made on the object under test (SpecMetodos)
    ahora,               \* the host clock, datetime.now(), in ticks
    libros,              \* Biblioteca.libros: dict ISBN -> Libro, in insertion order
    prestamos,           \* Biblioteca.prestamos
    multas,              \* Biblioteca.multas
    contador_prestamos,  \* Prestamo.contador_prestamos (class attribute)
    contador_multas,     \* Multa.contador_multas (class attribute)
    habitaciones,        \* Hotel.habitaciones
    reservas,            \* Hotel.reservas
    contador_reservas,   \* Reserva.contador_reservas (class attribute)
    productos,           \* Tienda.productos
    carritos,            \* the CarritoCompras.items of each customer
    pedidos,             \* Tienda.pedidos
    sueltos,             \* the Pedido objects the caller constructed itself
    contador_productos,  \* Producto.contador_productos (class attribute)
    contador_pedidos     \* Pedido.contador_pedidos (class attribute)

varsB == <<ahora, libros, prestamos, multas, contador_prestamos, contador_multas>>
varsH == <<habitaciones, reservas, contador_reservas>>
varsT == <<productos, carritos, pedidos, sueltos, contador_productos, contador_pedidos>>
vars == <<programa, llamadas, ult, hist, varsB, varsH, varsT>>

-----------------------------------------------------------------------------
(* Bounds of the model *)

MaxLlamadas == 6     \* calls in one run
TicksPorDia == 2     \* clock resolution: ticks in one day

(* Program constants *)

DIAS_PRESTAMO == 14
MAX_RENOVACIONES == 2
TARIFA_DIARIA == 150
PrimerPrestamo == 1
PrimeraMulta == 1
PrimeraReserva == 1000
PrimerProducto == 1
PrimerCliente == 1000
PrimerPedido == 5000

Plazo == DIAS_PRESTAMO * TicksPorDia      \* timedelta(days=DIAS_PRESTAMO)
NoFecha == -1                             \* fecha_devolucion = None

(* The arguments the caller draws from *)

ISBN == {1, 2}                            \* ISBNs of the books it constructs
Copias == {0, 1}                          \* numero_copias of a Libro it constructs
Miembros == {1, 2}                        \* id_miembro of its members (counter from 1)
DiasRetraso == {1}                        \* dias_retraso of a Multa it constructs
Saltos == {1, Plazo}                      \* time that passes between two calls
Numeros == {101}                          \* room numbers (never compared)
Precios == {50, 75}                       \* precio_noche, precio
Huespedes == {1}                          \* the guests
Fechas == {0, 1, 5 * TicksPorDia}         \* check-in and check-out instants
Clientes == {PrimerCliente}               \* id_cliente (counter from 1000)
Existencias == {2}                        \* stock of a Producto it constructs
Reposiciones == {1}                       \* quantities it restocks
NuevosEstados == {"procesando", "entregado", "cancelado"}  \* states it moves an order to
Cantidades == {1, 2, 3}                   \* quantities it asks for
Unidades == {1, 2}                        \* quantities of the direct method calls

-----------------------------------------------------------------------------
(* Helpers *)

\* timedelta.days: the whole days of a difference of two instants (floor)
Dias(dt) == IF dt >= 0 THEN dt \div TicksPorDia
            ELSE -((-dt + TicksPorDia - 1) \div TicksPorDia)

Max(S) == CHOOSE x \in S : \A y \in S : y <= x
Min(S) == CHOOSE x \in S : \A y \in S : x <= y

\* the first of the positions S that pass the test of a search loop, 0 when
\* there is none: `for x in s: if test(x): ...`
Primero(S) == IF S = {} THEN 0 ELSE Min(S)

\* one call of the run: ret is TRUE for True or an object, FALSE for False or None
Llamar(op, ret, args) ==
    /\ llamadas < MaxLlamadas
    /\ llamadas' = llamadas + 1
    /\ ult' = [op |-> op, ret |-> ret, args |-> args]

-----------------------------------------------------------------------------
(* biblioteca.py: Libro *)

Libro(isbn, numero_copias) ==
    [isbn |-> isbn, numero_copias |-> numero_copias, estado |-> "disponible"]

\* (mutant) a copy is lent without looking at the copy count
prestar_copia_sin_control(l) ==
    [libro |-> [l EXCEPT !.numero_copias = @ - 1,
                         !.estado = IF l.numero_copias - 1 = 0 THEN "prestado" ELSE @],
     ret |-> TRUE]

\* Libro.prestar_copia: the book after the call, and the value returned
prestar_copia(l) ==
    IF l.numero_copias > 0
    THEN [libro |-> [l EXCEPT !.numero_copias = @ - 1,
                              !.estado = IF l.numero_copias - 1 = 0
                                         THEN "prestado" ELSE @],
          ret |-> TRUE]
    ELSE [libro |-> l, ret |-> FALSE]

\* (mutant) the copy given back is not counted
devolver_copia_sin_sumar(l) == [l EXCEPT !.estado = "disponible"]

\* Libro.devolver_copia
devolver_copia(l) ==
    [l EXCEPT !.numero_copias = @ + 1,
              !.estado = IF l.numero_copias + 1 > 0 THEN "disponible" ELSE @]

\* Libro.esta_disponible
libro_esta_disponible(l) == l.numero_copias > 0

(* biblioteca.py: Prestamo *)

Prestamo(id, miembro, isbn, now) ==
    [id_prestamo |-> id, miembro |-> miembro, libro |-> isbn,
     fecha_vencimiento |-> now + Plazo,
     fecha_devolucion |-> NoFecha, renovaciones |-> 0]

\* (mutant) the renewal limit is off by one
renovar_una_de_mas(p, now) ==
    IF p.renovaciones <= MAX_RENOVACIONES
    THEN [prestamo |-> [p EXCEPT !.renovaciones = @ + 1,
                                 !.fecha_vencimiento = now + Plazo],
          ret |-> TRUE]
    ELSE [prestamo |-> p, ret |-> FALSE]

\* Prestamo.renovar
renovar(p, now) ==
    IF p.renovaciones < MAX_RENOVACIONES
    THEN [prestamo |-> [p EXCEPT !.renovaciones = @ + 1,
                                 !.fecha_vencimiento = now + Plazo],
          ret |-> TRUE]
    ELSE [prestamo |-> p, ret |-> FALSE]

\* (mutant) the return leaves no return date on the loan
devolver_sin_fecha(p, now) == p

\* Prestamo.devolver
devolver(p, now) == [p EXCEPT !.fecha_devolucion = now]

\* (mutant) a returned loan counts as overdue
esta_vencido_devuelto(p, now) ==
    IF p.fecha_devolucion # NoFecha THEN TRUE ELSE now > p.fecha_vencimiento

\* Prestamo.esta_vencido
esta_vencido(p, now) ==
    IF p.fecha_devolucion # NoFecha THEN FALSE ELSE now > p.fecha_vencimiento

(* biblioteca.py: Multa *)

Multa(id, id_prestamo, dias_retraso) ==
    [id_multa |-> id, prestamo |-> id_prestamo,
     monto |-> dias_retraso * TARIFA_DIARIA, pagada |-> FALSE]


-----------------------------------------------------------------------------
(* biblioteca.py: Biblioteca *)

PosLibro(isbn) == Primero({i \in 1..Len(libros) : libros[i].isbn = isbn})
PosPrestamo(id) == Primero({i \in 1..Len(prestamos) : prestamos[i].id_prestamo = id})
MiembroDe(id_prestamo) == prestamos[PosPrestamo(id_prestamo)].miembro

\* the ids a caller may pass: those handed out so far, and the next one (not found)
IdsPrestamo == PrimerPrestamo..contador_prestamos

\* Biblioteca.agregar_libro(Libro(isbn, ..., n))
\* (mutant) the copies of an ISBN already present are replaced, not added
agregar_libro_reemplaza(isbn, n) ==
    /\ programa = "biblioteca"
    /\ Llamar("agregar_libro", TRUE, <<isbn, n>>)
    /\ LET k == PosLibro(isbn) IN
       IF k # 0
       THEN libros' = [libros EXCEPT ![k].numero_copias = n]
       ELSE libros' = Append(libros, Libro(isbn, n))
    /\ UNCHANGED <<ahora, prestamos, multas, contador_prestamos, contador_multas>>
    /\ UNCHANGED <<programa, hist, varsH, varsT>>

agregar_libro(isbn, n) ==
    /\ programa = "biblioteca"
    /\ Llamar("agregar_libro", TRUE, <<isbn, n>>)
    /\ LET k == PosLibro(isbn) IN
       IF k # 0
       THEN libros' = [libros EXCEPT ![k].numero_copias = @ + n]
       ELSE libros' = Append(libros, Libro(isbn, n))
    /\ UNCHANGED <<ahora, prestamos, multas, contador_prestamos, contador_multas>>
    /\ UNCHANGED <<programa, hist, varsH, varsT>>

\* (mutant) the paid fines are taken for the unpaid ones
multas_pendientes_pagadas(m) ==
    {j \in 1..Len(multas) : MiembroDe(multas[j].prestamo) = m /\ multas[j].pagada}

\* the unpaid fines of member m: the list multas_pendientes of realizar_prestamo
multas_pendientes(m) ==
    {j \in 1..Len(multas) : MiembroDe(multas[j].prestamo) = m /\ ~multas[j].pagada}

\* Biblioteca.realizar_prestamo(miembro, libro): the member m, whose activo flag
\* is act, and the book at position k of the catalogue
realizar_prestamo(m, act, k) ==
    /\ programa = "biblioteca"
    /\ k \in 1..Len(libros)
    /\ IF ~act
       THEN /\ Llamar("realizar_prestamo", FALSE, <<m, act, k>>)
            /\ UNCHANGED varsB
       ELSE IF ~libro_esta_disponible(libros[k])
       THEN /\ Llamar("realizar_prestamo", FALSE, <<m, act, k>>)
            /\ UNCHANGED varsB
       ELSE IF multas_pendientes(m) # {}
       THEN /\ Llamar("realizar_prestamo", FALSE, <<m, act, k>>)
            /\ UNCHANGED varsB
       ELSE /\ Llamar("realizar_prestamo", TRUE, <<m, act, k>>)
            /\ prestamos' = Append(prestamos,
                   Prestamo(contador_prestamos, m, libros[k].isbn, ahora))
            /\ contador_prestamos' = contador_prestamos + 1
            /\ libros' = [libros EXCEPT ![k] = prestar_copia(libros[k]).libro]
            /\ UNCHANGED <<ahora, multas, contador_multas>>
    /\ UNCHANGED <<programa, hist, varsH, varsT>>

\* Biblioteca.devolver_libro(id_prestamo)
devolver_libro(id) ==
    /\ programa = "biblioteca"
    /\ LET i == PosPrestamo(id) IN
       IF i = 0
       THEN /\ Llamar("devolver_libro", FALSE, <<id>>)
            /\ UNCHANGED varsB
       ELSE IF prestamos[i].fecha_devolucion # NoFecha
       THEN /\ Llamar("devolver_libro", FALSE, <<id>>)
            /\ UNCHANGED varsB
       ELSE LET p == devolver(prestamos[i], ahora)
                k == PosLibro(p.libro)
            IN  /\ Llamar("devolver_libro", TRUE, <<id>>)
                /\ prestamos' = [prestamos EXCEPT ![i] = p]
                /\ libros' = [libros EXCEPT ![k] = devolver_copia(libros[k])]
                /\ IF esta_vencido(p, ahora)
                   THEN /\ multas' = Append(multas,
                              Multa(contador_multas, p.id_prestamo,
                                    Dias(ahora - p.fecha_vencimiento)))
                        /\ contador_multas' = contador_multas + 1
                   ELSE UNCHANGED <<multas, contador_multas>>
                /\ UNCHANGED <<ahora, contador_prestamos>>
    /\ UNCHANGED <<programa, hist, varsH, varsT>>

\* (mutant) the renewal does not look at the return date of the loan
renovar_prestamo_devuelto(id) ==
    /\ programa = "biblioteca"
    /\ LET i == PosPrestamo(id) IN
       IF i = 0
       THEN /\ Llamar("renovar_prestamo", FALSE, <<id>>)
            /\ UNCHANGED prestamos
       ELSE LET r == renovar(prestamos[i], ahora) IN
            /\ Llamar("renovar_prestamo", r.ret, <<id>>)
            /\ prestamos' = [prestamos EXCEPT ![i] = r.prestamo]
    /\ UNCHANGED <<ahora, libros, multas, contador_prestamos, contador_multas>>
    /\ UNCHANGED <<programa, hist, varsH, varsT>>

\* Biblioteca.renovar_prestamo(id_prestamo)
renovar_prestamo(id) ==
    /\ programa = "biblioteca"
    /\ LET i == PosPrestamo(id) IN
       IF i = 0
       THEN /\ Llamar("renovar_prestamo", FALSE, <<id>>)
            /\ UNCHANGED prestamos
       ELSE IF prestamos[i].fecha_devolucion # NoFecha
       THEN /\ Llamar("renovar_prestamo", FALSE, <<id>>)
            /\ UNCHANGED prestamos
       ELSE LET r == renovar(prestamos[i], ahora) IN
            /\ Llamar("renovar_prestamo", r.ret, <<id>>)
            /\ prestamos' = [prestamos EXCEPT ![i] = r.prestamo]
    /\ UNCHANGED <<ahora, libros, multas, contador_prestamos, contador_multas>>
    /\ UNCHANGED <<programa, hist, varsH, varsT>>

\* the caller fines a loan itself: multas.append(Multa(prestamo, dias_retraso))
multar(id, dias) ==
    /\ programa = "biblioteca"
    /\ PosPrestamo(id) # 0
    /\ Llamar("multar", TRUE, <<id, dias>>)
    /\ multas' = Append(multas, Multa(contador_multas, id, dias))
    /\ contador_multas' = contador_multas + 1
    /\ UNCHANGED <<ahora, libros, prestamos, contador_prestamos>>
    /\ UNCHANGED <<programa, hist, varsH, varsT>>

\* (mutant) a paid fine is taken out of the list
pagar_y_borrar(j) ==
    /\ programa = "biblioteca"
    /\ j \in 1..Len(multas)
    /\ Llamar("pagar", TRUE, <<j>>)
    /\ multas' = SubSeq(multas, 1, j - 1) \o SubSeq(multas, j + 1, Len(multas))
    /\ UNCHANGED <<ahora, libros, prestamos, contador_prestamos, contador_multas>>
    /\ UNCHANGED <<programa, hist, varsH, varsT>>

\* Multa.pagar on the fine at position j of multas
pagar(j) ==
    /\ programa = "biblioteca"
    /\ j \in 1..Len(multas)
    /\ Llamar("pagar", TRUE, <<j>>)
    /\ multas' = [multas EXCEPT ![j].pagada = TRUE]
    /\ UNCHANGED <<ahora, libros, prestamos, contador_prestamos, contador_multas>>
    /\ UNCHANGED <<programa, hist, varsH, varsT>>

\* the host clock moves on between two calls
avanzar(d) ==
    /\ programa = "biblioteca"
    /\ Llamar("avanzar", TRUE, <<d>>)
    /\ ahora' = ahora + d
    /\ UNCHANGED <<libros, prestamos, multas, contador_prestamos, contador_multas>>
    /\ UNCHANGED <<programa, hist, varsH, varsT>>

NextBiblioteca ==
    \/ \E isbn \in ISBN, n \in Copias : agregar_libro(isbn, n)
    \/ \E m \in Miembros, act \in BOOLEAN, k \in 1..Len(libros) :
          realizar_prestamo(m, act, k)
    \/ \E id \in IdsPrestamo : devolver_libro(id)
    \/ \E id \in IdsPrestamo : renovar_prestamo(id)
    \/ \E id \in IdsPrestamo, dias \in DiasRetraso : multar(id, dias)
    \/ \E j \in 1..Len(multas) : pagar(j)
    \/ \E d \in Saltos : avanzar(d)

-----------------------------------------------------------------------------
(* hotel.py: Habitacion *)

Habitacion(numero, precio_noche) ==
    [numero |-> numero, precio_noche |-> precio_noche, disponible |-> TRUE]

\* Habitacion.marcar_ocupada
marcar_ocupada(h) == [h EXCEPT !.disponible = FALSE]

\* Habitacion.marcar_disponible
marcar_disponible(h) == [h EXCEPT !.disponible = TRUE]

(* hotel.py: Reserva; habitacion is the position of the room in Hotel.habitaciones *)

\* (mutant) every reservation gets the first id
Reserva_primer_id(id, huesped, habitacion, fecha_entrada, fecha_salida) ==
    [id_reserva |-> PrimeraReserva, huesped |-> huesped, habitacion |-> habitacion,
     fecha_entrada |-> fecha_entrada, fecha_salida |-> fecha_salida,
     estado |-> "confirmada"]

Reserva(id, huesped, habitacion, fecha_entrada, fecha_salida) ==
    [id_reserva |-> id, huesped |-> huesped, habitacion |-> habitacion,
     fecha_entrada |-> fecha_entrada, fecha_salida |-> fecha_salida,
     estado |-> "confirmada"]

\* (mutant) the day of departure is counted as a night
calcular_noches_inclusivo(r) == Dias(r.fecha_salida - r.fecha_entrada) + 1

\* Reserva.calcular_noches
calcular_noches(r) == Dias(r.fecha_salida - r.fecha_entrada)

\* Reserva.calcular_costo_total
calcular_costo_total(r) == calcular_noches(r) * habitaciones[r.habitacion].precio_noche

(* hotel.py: Hotel *)

\* Hotel.agregar_habitacion(Habitacion(numero, tipo, precio))
agregar_habitacion(numero, precio) ==
    /\ programa = "hotel"
    /\ Llamar("agregar_habitacion", TRUE, <<numero, precio>>)
    /\ habitaciones' = Append(habitaciones, Habitacion(numero, precio))
    /\ UNCHANGED <<reservas, contador_reservas>>
    /\ UNCHANGED <<programa, hist, varsB, varsT>>

\* (mutant) a check-out equal to the check-in is let through
rango_invalido_estricto(fecha_entrada, fecha_salida) == fecha_salida < fecha_entrada

\* the date check of realizar_reserva
rango_invalido(fecha_entrada, fecha_salida) == fecha_salida <= fecha_entrada

\* Hotel.realizar_reserva(huesped, habitacion, fecha_entrada, fecha_salida)
realizar_reserva(g, k, fecha_entrada, fecha_salida) ==
    /\ programa = "hotel"
    /\ k \in 1..Len(habitaciones)
    /\ IF ~habitaciones[k].disponible
       THEN /\ Llamar("realizar_reserva", FALSE, <<g, k, fecha_entrada, fecha_salida>>)
            /\ UNCHANGED varsH
       ELSE IF rango_invalido(fecha_entrada, fecha_salida)
       THEN /\ Llamar("realizar_reserva", FALSE, <<g, k, fecha_entrada, fecha_salida>>)
            /\ UNCHANGED varsH
       ELSE /\ Llamar("realizar_reserva", TRUE, <<g, k, fecha_entrada, fecha_salida>>)
            /\ reservas' = Append(reservas,
                   Reserva(contador_reservas, g, k, fecha_entrada, fecha_salida))
            /\ contador_reservas' = contador_reservas + 1
            /\ habitaciones' = [habitaciones EXCEPT ![k] = marcar_ocupada(@)]
    /\ UNCHANGED <<programa, hist, varsB, varsT>>

\* Reserva.cancelar on the reservation at position r of reservas
cancelar(r) ==
    /\ programa = "hotel"
    /\ r \in 1..Len(reservas)
    /\ Llamar("cancelar", TRUE, <<r>>)
    /\ reservas' = [reservas EXCEPT ![r].estado = "cancelada"]
    /\ habitaciones' = [habitaciones EXCEPT
                          ![reservas[r].habitacion] = marcar_disponible(@)]
    /\ UNCHANGED contador_reservas
    /\ UNCHANGED <<programa, hist, varsB, varsT>>

\* Reserva.completar on the reservation at position r of reservas
completar(r) ==
    /\ programa = "hotel"
    /\ r \in 1..Len(reservas)
    /\ Llamar("completar", TRUE, <<r>>)
    /\ reservas' = [reservas EXCEPT ![r].estado = "completada"]
    /\ habitaciones' = [habitaciones EXCEPT
                          ![reservas[r].habitacion] = marcar_disponible(@)]
    /\ UNCHANGED contador_reservas
    /\ UNCHANGED <<programa, hist, varsB, varsT>>

NextHotel ==
    \/ \E numero \in Numeros, precio \in Precios : agregar_habitacion(numero, precio)
    \/ \E g \in Huespedes, k \in 1..Len(habitaciones), fe \in Fechas, fs \in Fechas :
          realizar_reserva(g, k, fe, fs)
    \/ \E r \in 1..Len(reservas) : cancelar(r)
    \/ \E r \in 1..Len(reservas) : completar(r)

-----------------------------------------------------------------------------
(* tienda.py: Producto *)

Producto(id, precio, stock) == [id_producto |-> id, precio |-> precio, stock |-> stock]

\* (mutant) the stock is reduced without looking at it
reducir_stock_sin_control(p, cantidad) ==
    [producto |-> [p EXCEPT !.stock = @ - cantidad], ret |-> TRUE]

\* (mutant) the last units in stock cannot be taken
reducir_stock_estricto(p, cantidad) ==
    IF cantidad < p.stock
    THEN [producto |-> [p EXCEPT !.stock = @ - cantidad], ret |-> TRUE]
    ELSE [producto |-> p, ret |-> FALSE]

\* Producto.reducir_stock: the product after the call, and the value returned
reducir_stock(p, cantidad) ==
    IF cantidad <= p.stock
    THEN [producto |-> [p EXCEPT !.stock = @ - cantidad], ret |-> TRUE]
    ELSE [producto |-> p, ret |-> FALSE]

\* Producto.aumentar_stock
aumentar_stock(p, cantidad) == [p EXCEPT !.stock = @ + cantidad]

\* Producto.esta_disponible
producto_esta_disponible(p, cantidad) == p.stock >= cantidad

(* tienda.py: ItemCarrito; ref is the identity of the object, producto is the *)
(* position of the product in Tienda.productos                               *)

ItemCarrito(ref, producto, cantidad) ==
    [ref |-> ref, producto |-> producto, cantidad |-> cantidad]

\* `item.cantidad += cantidad` on the object ref, as seen through a list of lines
sumar_cantidad(items, ref, cantidad) ==
    [i \in 1..Len(items) |->
        IF items[i].ref = ref THEN [items[i] EXCEPT !.cantidad = @ + cantidad]
        ELSE items[i]]

\* (mutant) the subtotal forgets the quantity
calcular_subtotal_unitario(item) == productos[item.producto].precio

\* ItemCarrito.calcular_subtotal
calcular_subtotal(item) == productos[item.producto].precio * item.cantidad

\* sum(item.calcular_subtotal() for item in items)
RECURSIVE suma_subtotales(_)
suma_subtotales(items) ==
    IF items = <<>> THEN 0
    ELSE calcular_subtotal(Head(items)) + suma_subtotales(Tail(items))

(* tienda.py: Pedido; items is a copy of the list it is given *)

Pedido(id, cliente, items) ==
    [id_pedido |-> id, cliente |-> cliente, items |-> items,
     estado |-> "pendiente", total |-> suma_subtotales(items)]

EstadoPedido == {"pendiente", "procesando", "enviado", "entregado", "cancelado"}

(* tienda.py: CarritoCompras *)

\* (mutant) the search of the line never finds it
PosItem_ausente(items, id_producto) == 0

\* the position in a cart of the line of the product with this id, 0 when absent
PosItem(items, id_producto) ==
    Primero({i \in 1..Len(items) : productos[items[i].producto].id_producto = id_producto})

\* the ItemCarrito objects that some cart or some order holds
RefsDe(items) == {items[i].ref : i \in 1..Len(items)}
RefsEnUso ==
    UNION ({RefsDe(carritos[c]) : c \in DOMAIN carritos}
           \cup {RefsDe(pedidos[o].items) : o \in 1..Len(pedidos)}
           \cup {RefsDe(sueltos[o].items) : o \in 1..Len(sueltos)})

\* the identity of a new object: one that no list holds
NuevaRef == Min({r \in 1..(Cardinality(RefsEnUso) + 1) : r \notin RefsEnUso})

\* CarritoCompras.agregar_producto(producto, cantidad) on the cart of customer c,
\* with the product at position k of the catalogue
carrito_agregar_producto(c, k, cantidad) ==
    /\ programa = "tienda"
    /\ k \in 1..Len(productos)
    /\ IF ~producto_esta_disponible(productos[k], cantidad)
       THEN /\ Llamar("carrito.agregar_producto", FALSE, <<c, k, cantidad>>)
            /\ UNCHANGED <<carritos, pedidos, sueltos>>
       ELSE LET i == PosItem(carritos[c], productos[k].id_producto) IN
            /\ Llamar("carrito.agregar_producto", TRUE, <<c, k, cantidad>>)
            /\ IF i # 0
               THEN LET ref == carritos[c][i].ref IN
                    /\ carritos' = [d \in DOMAIN carritos |->
                                       sumar_cantidad(carritos[d], ref, cantidad)]
                    /\ pedidos' = [o \in 1..Len(pedidos) |->
                          [pedidos[o] EXCEPT !.items = sumar_cantidad(@, ref, cantidad)]]
                    /\ sueltos' = [o \in 1..Len(sueltos) |->
                          [sueltos[o] EXCEPT !.items = sumar_cantidad(@, ref, cantidad)]]
               ELSE /\ carritos' = [carritos EXCEPT
                          ![c] = Append(@, ItemCarrito(NuevaRef, k, cantidad))]
                    /\ UNCHANGED <<pedidos, sueltos>>
    /\ UNCHANGED <<productos, contador_productos, contador_pedidos>>
    /\ UNCHANGED <<programa, hist, varsB, varsH>>

\* CarritoCompras.eliminar_producto(id_producto) on the cart of customer c
eliminar_producto(c, id_producto) ==
    /\ programa = "tienda"
    /\ LET i == PosItem(carritos[c], id_producto) IN
       IF i # 0
       THEN /\ Llamar("eliminar_producto", TRUE, <<c, id_producto>>)
            /\ carritos' = [carritos EXCEPT
                 ![c] = SubSeq(@, 1, i - 1) \o SubSeq(@, i + 1, Len(@))]
       ELSE /\ Llamar("eliminar_producto", FALSE, <<c, id_producto>>)
            /\ UNCHANGED carritos
    /\ UNCHANGED <<productos, pedidos, sueltos, contador_productos, contador_pedidos>>
    /\ UNCHANGED <<programa, hist, varsB, varsH>>

\* (mutant) emptying the cart gives its units back to the stock
vaciar_carrito_devuelve(c) ==
    /\ programa = "tienda"
    /\ Llamar("vaciar_carrito", TRUE, <<c>>)
    /\ carritos' = [carritos EXCEPT ![c] = <<>>]
    /\ productos' = [k \in 1..Len(productos) |->
          LET i == Primero({j \in 1..Len(carritos[c]) : carritos[c][j].producto = k})
          IN  IF i = 0 THEN productos[k]
              ELSE aumentar_stock(productos[k], carritos[c][i].cantidad)]
    /\ UNCHANGED <<pedidos, sueltos, contador_productos, contador_pedidos>>
    /\ UNCHANGED <<programa, hist, varsB, varsH>>

\* CarritoCompras.vaciar_carrito on the cart of customer c
vaciar_carrito(c) ==
    /\ programa = "tienda"
    /\ Llamar("vaciar_carrito", TRUE, <<c>>)
    /\ carritos' = [carritos EXCEPT ![c] = <<>>]
    /\ UNCHANGED <<productos, pedidos, sueltos, contador_productos, contador_pedidos>>
    /\ UNCHANGED <<programa, hist, varsB, varsH>>

(* tienda.py: Tienda *)

\* Tienda.agregar_producto(Producto(nombre, descripcion, precio, stock, categoria))
tienda_agregar_producto(precio, stock) ==
    /\ programa = "tienda"
    /\ Llamar("tienda.agregar_producto", TRUE, <<precio, stock>>)
    /\ productos' = Append(productos, Producto(contador_productos, precio, stock))
    /\ contador_productos' = contador_productos + 1
    /\ UNCHANGED <<carritos, pedidos, sueltos, contador_pedidos>>
    /\ UNCHANGED <<programa, hist, varsB, varsH>>

\* the loop of crear_pedido over carrito.items from line i on: the catalogue when
\* the loop ends, and whether it ran to the end
RECURSIVE reducir_inventario(_, _, _)
reducir_inventario(prods, items, i) ==
    IF i > Len(items)
    THEN [productos |-> prods, ret |-> TRUE]
    ELSE LET k == items[i].producto
             r == reducir_stock(prods[k], items[i].cantidad)
         IN  IF ~r.ret
             THEN [productos |-> prods, ret |-> FALSE]
             ELSE reducir_inventario([prods EXCEPT ![k] = r.producto], items, i + 1)

\* Tienda.crear_pedido(cliente, carrito) with the cart of customer c
crear_pedido(c) ==
    /\ programa = "tienda"
    /\ IF carritos[c] = <<>>
       THEN /\ Llamar("crear_pedido", FALSE, <<c>>)
            /\ UNCHANGED varsT
       ELSE LET r == reducir_inventario(productos, carritos[c], 1) IN
            IF ~r.ret
            THEN /\ Llamar("crear_pedido", FALSE, <<c>>)
                 /\ productos' = r.productos
                 /\ UNCHANGED <<carritos, pedidos, sueltos, contador_productos, contador_pedidos>>
            ELSE /\ Llamar("crear_pedido", TRUE, <<c>>)
                 /\ productos' = r.productos
                 /\ pedidos' = Append(pedidos, Pedido(contador_pedidos, c, carritos[c]))
                 /\ contador_pedidos' = contador_pedidos + 1
                 /\ carritos' = [carritos EXCEPT ![c] = <<>>]
                 /\ UNCHANGED <<sueltos, contador_productos>>
    /\ UNCHANGED <<programa, hist, varsB, varsH>>

\* the caller constructs an order itself: Pedido(cliente, carrito.items) with the
\* cart of customer c
nuevo_pedido(c) ==
    /\ programa = "tienda"
    /\ Llamar("Pedido", TRUE, <<c>>)
    /\ sueltos' = Append(sueltos, Pedido(contador_pedidos, c, carritos[c]))
    /\ contador_pedidos' = contador_pedidos + 1
    /\ UNCHANGED <<productos, carritos, pedidos, contador_productos>>
    /\ UNCHANGED <<programa, hist, varsB, varsH>>

\* Pedido.cambiar_estado(nuevo_estado) on the order at position o of pedidos
cambiar_estado(o, nuevo_estado) ==
    /\ programa = "tienda"
    /\ o \in 1..Len(pedidos)
    /\ Llamar("cambiar_estado", TRUE, <<o, nuevo_estado>>)
    /\ pedidos' = [pedidos EXCEPT ![o].estado = nuevo_estado]
    /\ UNCHANGED <<productos, carritos, sueltos, contador_productos, contador_pedidos>>
    /\ UNCHANGED <<programa, hist, varsB, varsH>>

\* Producto.aumentar_stock(cantidad) on the product at position k of the catalogue
reponer(k, cantidad) ==
    /\ programa = "tienda"
    /\ k \in 1..Len(productos)
    /\ Llamar("aumentar_stock", TRUE, <<k, cantidad>>)
    /\ productos' = [productos EXCEPT ![k] = aumentar_stock(@, cantidad)]
    /\ UNCHANGED <<carritos, pedidos, sueltos, contador_productos, contador_pedidos>>
    /\ UNCHANGED <<programa, hist, varsB, varsH>>

\* (mutant) the totals of the orders follow the new price
cambiar_precio_recalcula(k, precio) ==
    /\ programa = "tienda"
    /\ k \in 1..Len(productos)
    /\ Llamar("precio", TRUE, <<k, precio>>)
    /\ productos' = [productos EXCEPT ![k].precio = precio]
    /\ pedidos' = [o \in 1..Len(pedidos) |->
          LET i == Primero({j \in 1..Len(pedidos[o].items) :
                               pedidos[o].items[j].producto = k})
          IN  [pedidos[o] EXCEPT !.total =
                  IF i = 0 THEN @
                  ELSE @ + (precio - productos[k].precio) * pedidos[o].items[i].cantidad]]
    /\ UNCHANGED <<carritos, sueltos, contador_productos, contador_pedidos>>
    /\ UNCHANGED <<programa, hist, varsB, varsH>>

\* the caller changes the price of the product at position k: producto.precio = precio
cambiar_precio(k, precio) ==
    /\ programa = "tienda"
    /\ k \in 1..Len(productos)
    /\ Llamar("precio", TRUE, <<k, precio>>)
    /\ productos' = [productos EXCEPT ![k].precio = precio]
    /\ UNCHANGED <<carritos, pedidos, sueltos, contador_productos, contador_pedidos>>
    /\ UNCHANGED <<programa, hist, varsB, varsH>>

NextTienda ==
    \/ \E precio \in Precios, stock \in Existencias : tienda_agregar_producto(precio, stock)
    \/ \E c \in Clientes, k \in 1..Len(productos), n \in Cantidades :
          carrito_agregar_producto(c, k, n)
    \/ \E c \in Clientes, id \in PrimerProducto..contador_productos :
          eliminar_producto(c, id)
    \/ \E c \in Clientes : vaciar_carrito(c)
    \/ \E c \in Clientes : crear_pedido(c)
    \/ \E o \in 1..Len(pedidos), e \in NuevosEstados : cambiar_estado(o, e)
    \/ \E k \in 1..Len(productos), n \in Reposiciones : reponer(k, n)
    \/ \E c \in Clientes : nuevo_pedido(c)
    \/ \E k \in 1..Len(productos), precio \in Precios : cambiar_precio(k, precio)

-----------------------------------------------------------------------------
(* The methods of one resource called directly, the object under test being   *)
(* libros[1], productos[1] or habitaciones[1]; hist[1] holds the object as it *)
(* was before the first call.                                                 *)

Metodo(op, ret, args) ==
    /\ Llamar(op, ret, args)
    /\ hist' = Append(hist, [op |-> op, ret |-> ret, args |-> args])
    /\ UNCHANGED <<programa, ahora, prestamos, multas, contador_prestamos,
                   contador_multas, reservas, contador_reservas, carritos, pedidos, sueltos,
                   contador_productos, contador_pedidos>>

\* Libro.prestar_copia()
llamar_prestar_copia ==
    /\ programa = "Libro"
    /\ Metodo("prestar_copia", prestar_copia(libros[1]).ret, <<>>)
    /\ libros' = <<prestar_copia(libros[1]).libro>>
    /\ UNCHANGED <<productos, habitaciones>>

\* Libro.devolver_copia()
llamar_devolver_copia ==
    /\ programa = "Libro"
    /\ Metodo("devolver_copia", TRUE, <<>>)
    /\ libros' = <<devolver_copia(libros[1])>>
    /\ UNCHANGED <<productos, habitaciones>>

\* Producto.reducir_stock(cantidad)
llamar_reducir_stock(cantidad) ==
    /\ programa = "Producto"
    /\ Metodo("reducir_stock", reducir_stock(productos[1], cantidad).ret, <<cantidad>>)
    /\ productos' = <<reducir_stock(productos[1], cantidad).producto>>
    /\ UNCHANGED <<libros, habitaciones>>

\* Producto.aumentar_stock(cantidad)
llamar_aumentar_stock(cantidad) ==
    /\ programa = "Producto"
    /\ Metodo("aumentar_stock", TRUE, <<cantidad>>)
    /\ productos' = <<aumentar_stock(productos[1], cantidad)>>
    /\ UNCHANGED <<libros, habitaciones>>

\* Habitacion.marcar_ocupada()
llamar_marcar_ocupada ==
    /\ programa = "Habitacion"
    /\ Metodo("marcar_ocupada", TRUE, <<>>)
    /\ habitaciones' = <<marcar_ocupada(habitaciones[1])>>
    /\ UNCHANGED <<libros, productos>>

\* Habitacion.marcar_disponible()
llamar_marcar_disponible ==
    /\ programa = "Habitacion"
    /\ Metodo("marcar_disponible", TRUE, <<>>)
    /\ habitaciones' = <<marcar_disponible(habitaciones[1])>>
    /\ UNCHANGED <<libros, productos>>

NextMetodos ==
    \/ llamar_prestar_copia
    \/ llamar_devolver_copia
    \/ \E n \in Unidades : llamar_reducir_stock(n)
    \/ \E n \in Unidades : llamar_aumentar_stock(n)
    \/ llamar_marcar_ocupada
    \/ llamar_marcar_disponible

-----------------------------------------------------------------------------
(* The lookups by title and by name.  A string is a tuple of characters over  *)
(* the letters a, b in both cases; the catalogue searched is libros or        *)
(* productos, whose elements here carry their titulo or nombre.  The value    *)
(* returned is recorded in ult.ret as the position of the element returned,   *)
(* 0 for None.                                                                *)

Titulos == {<<"A", "b">>, <<"a", "B", "a">>, <<"b">>}
Consultas == {<<>>, <<"B">>, <<"a", "B">>, <<"b", "A">>, <<"b", "b">>}

\* (mutant) the case of a letter is kept
Minuscula_igual(c) == c

\* str.lower on one character
Minuscula(c) == CASE c = "A" -> "a" [] c = "B" -> "b" [] OTHER -> c

\* str.lower
lower(s) == [i \in 1..Len(s) |-> Minuscula(s[i])]

\* q in t, for strings
contiene(t, q) ==
    \E k \in 0..(Len(t) - Len(q)) : \A i \in 1..Len(q) : t[k + i] = q[i]

\* Biblioteca.buscar_libro(titulo)
buscar_libro(titulo) ==
    /\ programa = "buscar_libro"
    /\ Llamar("buscar_libro",
              Primero({i \in 1..Len(libros) :
                          contiene(lower(libros[i].titulo), lower(titulo))}),
              <<titulo>>)
    /\ UNCHANGED <<programa, hist, varsB, varsH, varsT>>

\* Tienda.buscar_producto_por_nombre(nombre)
buscar_producto_por_nombre(nombre) ==
    /\ programa = "buscar_producto_por_nombre"
    /\ Llamar("buscar_producto_por_nombre",
              Primero({i \in 1..Len(productos) :
                          contiene(lower(productos[i].nombre), lower(nombre))}),
              <<nombre>>)
    /\ UNCHANGED <<programa, hist, varsB, varsH, varsT>>

NextBusqueda ==
    \/ \E q \in Consultas : buscar_libro(q)
    \/ \E q \in Consultas : buscar_producto_por_nombre(q)

-----------------------------------------------------------------------------
(* The runs of the three scripts *)

SinLlamadas ==
    /\ llamadas = 0
    /\ ult = [op |-> "init", ret |-> TRUE, args |-> <<>>]
    /\ ahora = 0
    /\ prestamos = <<>>
    /\ multas = <<>>
    /\ contador_prestamos = PrimerPrestamo
    /\ contador_multas = PrimeraMulta
    /\ reservas = <<>>
    /\ contador_reservas = PrimeraReserva
    /\ carritos = [c \in Clientes |-> <<>>]
    /\ pedidos = <<>>
    /\ sueltos = <<>>
    /\ contador_pedidos = PrimerPedido

Vacio ==
    /\ SinLlamadas
    /\ hist = <<>>
    /\ libros = <<>>
    /\ habitaciones = <<>>
    /\ productos = <<>>
    /\ contador_productos = PrimerProducto

\* the states the registries leave a resource in: a book with any copy count in
\* either estado (agregar_libro adds copies without touching estado), a product
\* with any stock, a room free or occupied
LibrosPosibles ==
    {[isbn |-> 1, numero_copias |-> c, estado |-> e] :
        c \in 0..Max(Unidades), e \in {"disponible", "prestado"}}
ProductosPosibles ==
    {Producto(PrimerProducto, precio, s) : precio \in {Min(Precios)}, s \in 0..Max(Unidades)}
HabitacionesPosibles ==
    {[Habitacion(n, precio) EXCEPT !.disponible = d] :
        n \in Numeros, precio \in {Min(Precios)}, d \in BOOLEAN}

InitMetodos ==
    /\ SinLlamadas
    /\ contador_productos = PrimerProducto + 1
    /\ programa \in {"Libro", "Producto", "Habitacion"}
    /\ libros \in {<<l>> : l \in LibrosPosibles}
    /\ productos \in {<<p>> : p \in ProductosPosibles}
    /\ habitaciones \in {<<h>> : h \in HabitacionesPosibles}
    /\ programa = "Libro" => productos[1].stock = 0 /\ habitaciones[1].disponible
    /\ programa = "Producto" => libros[1] = Libro(1, 0) /\ habitaciones[1].disponible
    /\ programa = "Habitacion" => libros[1] = Libro(1, 0) /\ productos[1].stock = 0
    /\ hist = <<[op |-> "init", ret |-> TRUE,
                 args |-> <<libros[1], productos[1], habitaciones[1]>>]>>

\* the catalogues searched: up to three books (one per ISBN, in insertion
\* order) or up to three products (ids in creation order) with any titles
Catalogos ==
    UNION {[1..n -> Titulos] : n \in 0..Cardinality(Titulos)}

InitBusqueda ==
    /\ SinLlamadas
    /\ hist = <<>>
    /\ habitaciones = <<>>
    /\ programa \in {"buscar_libro", "buscar_producto_por_nombre"}
    /\ \E t \in Catalogos :
          IF programa = "buscar_libro"
          THEN /\ libros = [i \in 1..Len(t) |->
                     [isbn |-> i, titulo |-> t[i], numero_copias |-> 1,
                      estado |-> "disponible"]]
               /\ productos = <<>>
          ELSE /\ productos = [i \in 1..Len(t) |->
                     [id_producto |-> PrimerProducto + i - 1, nombre |-> t[i],
                      precio |-> Min(Precios), stock |-> Min(Existencias)]]
               /\ libros = <<>>
    /\ contador_productos = PrimerProducto + Len(productos)

Init == programa \in {"biblioteca", "hotel", "tienda"} /\ Vacio
InitBiblioteca == programa = "biblioteca" /\ Vacio
InitHotel == programa = "hotel" /\ Vacio
InitTienda == programa = "tienda" /\ Vacio

Next == NextBiblioteca \/ NextHotel \/ NextTienda

Spec == Init /\ [][Next]_vars
SpecBiblioteca == InitBiblioteca /\ [][NextBiblioteca]_vars
SpecHotel == InitHotel /\ [][NextHotel]_vars
SpecTienda == InitTienda /\ [][NextTienda]_vars
SpecMetodos == InitMetodos /\ [][NextMetodos]_vars
SpecBusqueda == InitBusqueda /\ [][NextBusqueda]_vars

-----------------------------------------------------------------------------
(* Properties *)

\* the step is a call of op
Es(op) == llamadas' = llamadas + 1 /\ ult'.op = op

\* the lines of a cart that ask for more than the stock of their product
LineasSinStock(items) ==
    {i \in 1..Len(items) : items[i].cantidad > productos[items[i].producto].stock}

\* C1: a crear_pedido call on a non-empty cart with a line whose quantity exceeds
\* the stock of its product returns None and leaves every stock, the pedidos list
\* and the cart as they were.
C1_CheckoutTodoONada ==
    [][(/\ Es("crear_pedido")
        /\ carritos[ult'.args[1]] # <<>>
        /\ LineasSinStock(carritos[ult'.args[1]]) # {})
       => (/\ ~ult'.ret
           /\ productos' = productos
           /\ pedidos' = pedidos
           /\ carritos' = carritos)]_vars

\* the step is a devolver_libro call on a loan of the list that has no return date
DevuelveActivo ==
    /\ Es("devolver_libro")
    /\ PosPrestamo(ult'.args[1]) # 0
    /\ prestamos[PosPrestamo(ult'.args[1])].fecha_devolucion = NoFecha

\* C2: a devolver_libro call on an unreturned loan whose due date has passed
\* returns True and appends exactly one Multa, bound to that loan, unpaid, of
\* monto = days late (whole days) * 1.50.
C2_DevolucionVencidaCreaMulta ==
    [][(/\ DevuelveActivo
        /\ prestamos[PosPrestamo(ult'.args[1])].fecha_vencimiento < ahora)
       => (/\ ult'.ret
           /\ Len(multas') = Len(multas) + 1
           /\ SubSeq(multas', 1, Len(multas)) = multas
           /\ multas'[Len(multas')].prestamo = ult'.args[1]
           /\ ~multas'[Len(multas')].pagada
           /\ multas'[Len(multas')].monto =
                 Dias(ahora - prestamos[PosPrestamo(ult'.args[1])].fecha_vencimiento)
                 * TARIFA_DIARIA)]_vars

\* C3: a devolver_libro call on an unreturned loan whose due date has not passed
\* (now <= fecha_vencimiento) returns True and leaves multas unchanged.
C3_DevolucionATiempoSinMulta ==
    [][(/\ DevuelveActivo
        /\ ahora <= prestamos[PosPrestamo(ult'.args[1])].fecha_vencimiento)
       => (ult'.ret /\ multas' = multas)]_vars

\* a loan has just been returned on the very instant it was due
C3_Testigo ==
    /\ ult.op = "devolver_libro" /\ ult.ret
    /\ ahora > 0
    /\ prestamos[PosPrestamo(ult.args[1])].fecha_devolucion = ahora
    /\ prestamos[PosPrestamo(ult.args[1])].fecha_vencimiento = ahora

\* member m has an unpaid fine on one of his loans
TieneMultaSinPagar(m) ==
    \E j \in 1..Len(multas) :
        /\ ~multas[j].pagada
        /\ \E i \in 1..Len(prestamos) :
              /\ prestamos[i].id_prestamo = multas[j].prestamo
              /\ prestamos[i].miembro = m

\* C4: realizar_prestamo returns None when the member is inactive, or the book has
\* no copies, or the member has an unpaid fine, and then leaves the books, the
\* prestamos list and the multas list as they were.
C4_PrestamoRechazadoSinCambio ==
    [][(/\ Es("realizar_prestamo")
        /\ \/ ~ult'.args[2]
           \/ libros[ult'.args[3]].numero_copias = 0
           \/ TieneMultaSinPagar(ult'.args[1]))
       => (/\ ~ult'.ret
           /\ libros' = libros
           /\ prestamos' = prestamos
           /\ multas' = multas)]_vars

\* an active member with an unpaid fine has just been refused a book that has copies
C4_Testigo ==
    /\ ult.op = "realizar_prestamo" /\ ~ult.ret
    /\ ult.args[2]
    /\ libros[ult.args[3]].numero_copias > 0
    /\ TieneMultaSinPagar(ult.args[1])

\* C5: realizar_reserva returns None when the room is not available (whatever the
\* dates) or fecha_salida <= fecha_entrada, and then leaves the rooms and the
\* reservas list as they were.
C5_ReservaRechazadaSinCambio ==
    [][(/\ Es("realizar_reserva")
        /\ \/ ~habitaciones[ult'.args[2]].disponible
           \/ ult'.args[4] <= ult'.args[3])
       => (/\ ~ult'.ret
           /\ habitaciones' = habitaciones
           /\ reservas' = reservas)]_vars

\* a free room has just been refused for a stay that ends the instant it begins
C5_Testigo ==
    /\ ult.op = "realizar_reserva" /\ ~ult.ret
    /\ habitaciones[ult.args[2]].disponible
    /\ ult.args[4] = ult.args[3]
    /\ \E r \in 1..Len(reservas) : reservas[r].estado = "cancelada"

\* C6: on an unreturned loan the first and the second renovar_prestamo call return
\* True, add one to renovaciones and set fecha_vencimiento to now + 14 days; every
\* later call returns False and changes nothing; renovaciones never exceeds 2.
C6_RenovacionDosVeces ==
    /\ [](\A i \in 1..Len(prestamos) : prestamos[i].renovaciones <= 2)
    /\ [][(/\ Es("renovar_prestamo")
           /\ PosPrestamo(ult'.args[1]) # 0
           /\ prestamos[PosPrestamo(ult'.args[1])].fecha_devolucion = NoFecha)
          => LET i == PosPrestamo(ult'.args[1]) IN
             IF prestamos[i].renovaciones < 2
             THEN /\ ult'.ret
                  /\ prestamos'[i].renovaciones = prestamos[i].renovaciones + 1
                  /\ prestamos'[i].fecha_vencimiento = ahora + 14 * TicksPorDia
             ELSE /\ ~ult'.ret
                  /\ prestamos' = prestamos]_vars

\* the third renewal of a loan, made after time has passed, has just been refused
C6_Testigo ==
    /\ ult.op = "renovar_prestamo" /\ ~ult.ret
    /\ PosPrestamo(ult.args[1]) # 0
    /\ prestamos[PosPrestamo(ult.args[1])].fecha_devolucion = NoFecha
    /\ prestamos[PosPrestamo(ult.args[1])].renovaciones = 2
    /\ prestamos[PosPrestamo(ult.args[1])].fecha_vencimiento > 14 * TicksPorDia

\* the sum over the lines of unit price * quantity
RECURSIVE TotalDe(_, _)
TotalDe(items, n) ==
    IF n = 0 THEN 0
    ELSE productos[items[n].producto].precio * items[n].cantidad + TotalDe(items, n - 1)

\* C7: a crear_pedido call on a non-empty cart whose lines all fit the stock
\* returns an Order in state PENDIENTE appended to pedidos, with the cart's lines
\* and the sum of unit price * quantity as total; the stock of each line's product
\* drops by the line's quantity and the cart is empty afterwards.
C7_CheckoutCorrecto ==
    [][(/\ Es("crear_pedido")
        /\ carritos[ult'.args[1]] # <<>>
        /\ LineasSinStock(carritos[ult'.args[1]]) = {})
       => LET items == carritos[ult'.args[1]] IN
          /\ ult'.ret
          /\ Len(pedidos') = Len(pedidos) + 1
          /\ SubSeq(pedidos', 1, Len(pedidos)) = pedidos
          /\ pedidos'[Len(pedidos')].estado = "pendiente"
          /\ pedidos'[Len(pedidos')].items = items
          /\ pedidos'[Len(pedidos')].total = TotalDe(items, Len(items))
          /\ \A i \in 1..Len(items) :
                productos'[items[i].producto].stock =
                   productos[items[i].producto].stock - items[i].cantidad
          /\ carritos'[ult'.args[1]] = <<>>]_vars

\* an order of two lines with different prices and quantities has just been created
C7_Testigo ==
    /\ ult.op = "crear_pedido" /\ ult.ret
    /\ LET o == pedidos[Len(pedidos)] IN
       /\ Len(o.items) = 2
       /\ o.items[1].cantidad # o.items[2].cantidad
       /\ productos[o.items[1].producto].precio # productos[o.items[2].producto].precio

\* C8: every Libro.numero_copias and every Producto.stock is >= 0.
C8_CapacidadNoNegativa ==
    /\ \A k \in 1..Len(libros) : libros[k].numero_copias >= 0
    /\ \A k \in 1..Len(productos) : productos[k].stock >= 0

\* a checkout has just been refused for lack of stock, after an order took stock
C8_Testigo ==
    /\ programa = "tienda"
    /\ ult.op = "crear_pedido" /\ ~ult.ret
    /\ carritos[ult.args[1]] # <<>>
    /\ pedidos # <<>>

\* C9: prestar_copia at zero copies returns False and leaves the book alone, and
\* otherwise returns True and takes exactly one copy; reducir_stock(n) with
\* n > stock returns False and leaves the stock alone, and with 0 < n <= stock
\* returns True and takes exactly n.
C9_AdquirirFallidoSinCambio ==
    [][/\ Es("prestar_copia") =>
            IF libros[1].numero_copias = 0
            THEN ~ult'.ret /\ libros' = libros
            ELSE ult'.ret /\ libros'[1].numero_copias = libros[1].numero_copias - 1
       /\ Es("reducir_stock") =>
            IF ult'.args[1] > productos[1].stock
            THEN ~ult'.ret /\ productos' = productos
            ELSE ult'.ret /\ productos'[1].stock = productos[1].stock - ult'.args[1]
      ]_vars

\* a reducir_stock has just been refused after another one went through
C9_Testigo ==
    /\ ult.op = "reducir_stock" /\ ~ult.ret
    /\ ult.args[1] > productos[1].stock
    /\ \E j \in 1..Len(hist) : hist[j].op = "reducir_stock" /\ hist[j].ret

\* the calls made so far are k successful calls of op1 followed by k calls of op2
IdaYVuelta(op1, op2) ==
    \E k \in 1..MaxLlamadas :
        /\ Len(hist) = 1 + 2 * k
        /\ \A j \in 2..(k + 1) : hist[j].op = op1 /\ hist[j].ret
        /\ \A j \in (k + 2)..(2 * k + 1) : hist[j].op = op2
        /\ op1 = "reducir_stock" =>
              /\ k = 1
              /\ hist[2].args = hist[3].args

\* C10: k successful prestar_copia calls followed by k devolver_copia calls leave
\* numero_copias and estado as they were; reducir_stock(n) followed by
\* aumentar_stock(n) leaves stock as it was; marcar_ocupada followed by
\* marcar_disponible leaves the room available.
C10_AdquirirYLiberarInversas ==
    /\ IdaYVuelta("prestar_copia", "devolver_copia") => libros[1] = hist[1].args[1]
    /\ IdaYVuelta("reducir_stock", "aumentar_stock") => productos[1] = hist[1].args[2]
    /\ IdaYVuelta("marcar_ocupada", "marcar_disponible") => habitaciones[1].disponible

\* the loans that have a return date
Devueltos == {i \in 1..Len(prestamos) : prestamos[i].fecha_devolucion # NoFecha}

\* C11: devolver_libro returns False and changes no book, loan or fine when the
\* id is not in prestamos or the loan already has a return date; a return that
\* goes through stamps the loan and adds one copy to its book, and a return date
\* is never taken back, so each loan adds a copy to its book at most once.
C11_DevolucionUnaSolaVez ==
    [][/\ Es("devolver_libro") =>
            LET i == PosPrestamo(ult'.args[1]) IN
            IF i = 0 \/ i \in Devueltos
            THEN /\ ~ult'.ret
                 /\ libros' = libros
                 /\ prestamos' = prestamos
                 /\ multas' = multas
            ELSE /\ ult'.ret
                 /\ prestamos'[i].fecha_devolucion # NoFecha
                 /\ LET k == PosLibro(prestamos[i].libro) IN
                    libros'[k].numero_copias = libros[k].numero_copias + 1
       /\ \A i \in Devueltos :
             prestamos'[i].fecha_devolucion = prestamos[i].fecha_devolucion
      ]_vars

\* the second return of a loan has just been refused, some time after the first
C11_Testigo ==
    /\ ult.op = "devolver_libro" /\ ~ult.ret
    /\ PosPrestamo(ult.args[1]) \in Devueltos
    /\ prestamos[PosPrestamo(ult.args[1])].fecha_devolucion < ahora

\* C12: renovar_prestamo returns False and leaves the loans alone when the loan
\* has a return date (even with renovaciones < 2) or the id is not in prestamos;
\* the renovaciones and the fecha_vencimiento of a returned loan never change.
C12_RenovacionSoloActivo ==
    [][/\ (/\ Es("renovar_prestamo")
           /\ \/ PosPrestamo(ult'.args[1]) = 0
              \/ PosPrestamo(ult'.args[1]) \in Devueltos)
          => (~ult'.ret /\ prestamos' = prestamos)
       /\ \A i \in Devueltos :
             /\ prestamos'[i].renovaciones = prestamos[i].renovaciones
             /\ prestamos'[i].fecha_vencimiento = prestamos[i].fecha_vencimiento
      ]_vars

\* the renewal of a returned loan that had renewals left has just been refused
C12_Testigo ==
    /\ ult.op = "renovar_prestamo" /\ ~ult.ret
    /\ PosPrestamo(ult.args[1]) \in Devueltos
    /\ prestamos[PosPrestamo(ult.args[1])].renovaciones < 2
    /\ ahora > 0

\* C13: the library scenario.  An active member without unpaid fines who borrows
\* a book with 1 copy gets the loan, and the book is left with 0 copies and
\* unavailable; a borrow of a book with 0 copies returns None; the return of an
\* active loan of a book with 0 copies returns True and leaves the book with 1
\* copy and available, so that it can be borrowed again.
C13_EscenarioBiblioteca ==
    [][/\ (/\ Es("realizar_prestamo")
           /\ ult'.args[2]
           /\ libros[ult'.args[3]].numero_copias = 1
           /\ ~TieneMultaSinPagar(ult'.args[1]))
          => (/\ ult'.ret
              /\ libros'[ult'.args[3]].numero_copias = 0
              /\ ~libro_esta_disponible(libros'[ult'.args[3]]))
       /\ (/\ Es("realizar_prestamo")
           /\ libros[ult'.args[3]].numero_copias = 0)
          => (~ult'.ret /\ libros' = libros)
       /\ (/\ DevuelveActivo
           /\ libros[PosLibro(prestamos[PosPrestamo(ult'.args[1])].libro)].numero_copias = 0)
          => LET k == PosLibro(prestamos[PosPrestamo(ult'.args[1])].libro) IN
             /\ ult'.ret
             /\ libros'[k].numero_copias = 1
             /\ libro_esta_disponible(libros'[k])
      ]_vars

\* the end of the scenario: one book added with 1 copy, lent to member 1, given
\* back, and now lent to member 2, in five calls
C13_Testigo ==
    /\ llamadas = 5
    /\ ult.op = "realizar_prestamo" /\ ult.ret /\ ult.args[1] = 2
    /\ Len(libros) = 1 /\ libros[1].numero_copias = 0
    /\ Len(prestamos) = 2
    /\ prestamos[1].miembro = 1 /\ prestamos[1].fecha_devolucion # NoFecha
    /\ prestamos[2].miembro = 2 /\ prestamos[2].fecha_devolucion = NoFecha
    /\ multas = <<>>

\* C14: the hotel scenario.  A reservation of 5 days on an available room
\* succeeds in state confirmada with calcular_noches() = 5 and
\* calcular_costo_total() = 5 * precio_noche, and occupies the room; a
\* reservation on an occupied room returns None; cancelar() on a reservation
\* leaves it cancelada and its room available, so that it can be reserved again.
C14_EscenarioHotel ==
    [][/\ (/\ Es("realizar_reserva")
           /\ habitaciones[ult'.args[2]].disponible
           /\ ult'.args[4] - ult'.args[3] = 5 * TicksPorDia)
          => (/\ ult'.ret
              /\ Len(reservas') = Len(reservas) + 1
              /\ LET r == reservas'[Len(reservas')] IN
                 /\ r.estado = "confirmada"
                 /\ r.habitacion = ult'.args[2]
                 /\ calcular_noches(r) = 5
                 /\ calcular_costo_total(r) = 5 * habitaciones[ult'.args[2]].precio_noche
              /\ ~habitaciones'[ult'.args[2]].disponible)
       /\ (/\ Es("realizar_reserva")
           /\ ~habitaciones[ult'.args[2]].disponible)
          => (~ult'.ret /\ reservas' = reservas)
       /\ Es("cancelar")
          => (/\ reservas'[ult'.args[1]].estado = "cancelada"
              /\ habitaciones'[reservas[ult'.args[1]].habitacion].disponible)
      ]_vars

\* the end of the scenario: one room, reserved for 5 days, the reservation
\* cancelled, and the room reserved again, in five calls
C14_Testigo ==
    /\ llamadas = 5
    /\ ult.op = "realizar_reserva" /\ ult.ret
    /\ Len(habitaciones) = 1 /\ ~habitaciones[1].disponible
    /\ Len(reservas) = 2
    /\ reservas[1].estado = "cancelada"
    /\ reservas[1].fecha_salida - reservas[1].fecha_entrada = 5 * TicksPorDia
    /\ reservas[2].estado = "confirmada"

\* the reservations and the orders that are in a terminal state
ReservasTerminales ==
    {r \in 1..Len(reservas) : reservas[r].estado \in {"cancelada", "completada"}}
PedidosTerminales ==
    {o \in 1..Len(pedidos) : pedidos[o].estado \in {"cancelado", "entregado"}}

\* C16: a reservation that is cancelada or completada keeps its estado, and a
\* cancelar or completar call on it leaves the disponible flag of its room alone;
\* an order that is CANCELADO or ENTREGADO keeps its estado.
C16_EstadoTerminalFinal ==
    [][/\ \A r \in ReservasTerminales :
             /\ reservas'[r].estado = reservas[r].estado
             /\ ((Es("cancelar") \/ Es("completar")) /\ ult'.args[1] = r)
                => habitaciones' = habitaciones
       /\ \A o \in PedidosTerminales : pedidos'[o].estado = pedidos[o].estado
      ]_vars

\* the cart of the call of this step holds one line, of n units of a product
\* that has 2 in stock
UnaLinea(n) ==
    LET items == carritos[ult'.args[1]] IN
    /\ Len(items) = 1
    /\ items[1].cantidad = n
    /\ productos[items[1].producto].stock = 2

\* C15: the store scenario.  For a product with stock 2, adding 3 units at once
\* is refused and leaves the cart as it was; checkout of an empty cart, or of a
\* cart that holds 3 units of the product, returns None and leaves the stock at 2
\* and pedidos as it was; checkout of a cart that holds 2 units of it returns an
\* order whose total is 2 * unit price, takes the stock to 0 and empties the cart.
C15_EscenarioTienda ==
    [][/\ (/\ Es("carrito.agregar_producto")
           /\ ult'.args[3] = 3
           /\ productos[ult'.args[2]].stock = 2)
          => (~ult'.ret /\ carritos' = carritos /\ productos' = productos)
       /\ (/\ Es("crear_pedido")
           /\ carritos[ult'.args[1]] = <<>> \/ UnaLinea(3))
          => (~ult'.ret /\ productos' = productos /\ pedidos' = pedidos)
       /\ (Es("crear_pedido") /\ UnaLinea(2))
          => LET k == carritos[ult'.args[1]][1].producto IN
             /\ ult'.ret
             /\ productos'[k].stock = 0
             /\ Len(pedidos') = Len(pedidos) + 1
             /\ pedidos'[Len(pedidos')].total = 2 * productos[k].precio
             /\ carritos'[ult'.args[1]] = <<>>
      ]_vars

\* the end of the scenario: one product with stock 2, no order from the first
\* checkout, one order of 2 units from the second, in five calls
C15_Testigo ==
    /\ llamadas = 5
    /\ ult.op = "crear_pedido" /\ ult.ret
    /\ Len(productos) = 1 /\ productos[1].stock = 0
    /\ Len(pedidos) = 1 /\ sueltos = <<>>
    /\ Len(pedidos[1].items) = 1 /\ pedidos[1].items[1].cantidad = 2
    /\ pedidos[1].total = 2 * productos[1].precio
    /\ carritos[ult.args[1]] = <<>>

\* C17: a cambiar_estado call that moves an order of pedidos to CANCELADO adds
\* to the stock of the product of each of its lines the quantity of the line.
C17_CancelarLiberaStock ==
    [][(/\ Es("cambiar_estado")
        /\ ult'.args[2] = "cancelado"
        /\ pedidos[ult'.args[1]].estado # "cancelado")
       => LET items == pedidos[ult'.args[1]].items IN
          \A i \in 1..Len(items) :
             productos'[items[i].producto].stock =
                productos[items[i].producto].stock + items[i].cantidad]_vars

\* C18: the total of an order of pedidos never changes after its creation.
C18_TotalFijo ==
    [][\A o \in 1..Len(pedidos) : pedidos'[o].total = pedidos[o].total]_vars

\* the price of a product has just been changed, and an order that holds it keeps
\* a total that is no longer the sum of its lines at the current prices
C18_Testigo ==
    /\ ult.op = "precio"
    /\ \E o \in 1..Len(pedidos) :
          /\ pedidos[o].total # TotalDe(pedidos[o].items, Len(pedidos[o].items))
          /\ \E i \in 1..Len(pedidos[o].items) :
                pedidos[o].items[i].producto = ult.args[1]

\* C19: no agregar_producto, eliminar_producto or vaciar_carrito call on a cart
\* changes the lines of an order that was made from the items of a cart.
C19_ItemsInstantanea ==
    [][(Es("carrito.agregar_producto") \/ Es("eliminar_producto") \/ Es("vaciar_carrito"))
       => (/\ \A o \in 1..Len(pedidos) : pedidos'[o].items = pedidos[o].items
           /\ \A o \in 1..Len(sueltos) : sueltos'[o].items = sueltos[o].items)]_vars

\* the lines of a cart that hold the product at position k of the catalogue
LineasDe(items, k) ==
    {i \in 1..Len(items) : productos[items[i].producto].id_producto = productos[k].id_producto}

\* C20: a successful agregar_producto(p, n) adds n to the line of p when the cart
\* has one, without adding a line, and otherwise appends one line of n units of
\* p; a cart never holds two lines of the same product id.
C20_FusionDeLineas ==
    /\ [](\A c \in DOMAIN carritos : \A k \in 1..Len(productos) :
             Cardinality(LineasDe(carritos[c], k)) <= 1)
    /\ [][(Es("carrito.agregar_producto") /\ ult'.ret)
          => LET c == ult'.args[1]
                 k == ult'.args[2]
                 n == ult'.args[3]
                 items == carritos[c]
                 nuevos == carritos'[c]
             IN  IF LineasDe(items, k) # {}
                 THEN /\ Len(nuevos) = Len(items)
                      /\ \A i \in 1..Len(items) :
                            /\ nuevos[i].producto = items[i].producto
                            /\ nuevos[i].cantidad =
                                  IF i \in LineasDe(items, k)
                                  THEN items[i].cantidad + n ELSE items[i].cantidad
                 ELSE /\ Len(nuevos) = Len(items) + 1
                      /\ SubSeq(nuevos, 1, Len(items)) = items
                      /\ nuevos[Len(nuevos)].producto = k
                      /\ nuevos[Len(nuevos)].cantidad = n]_vars

\* units have just been added to the first of the two lines of a cart
C20_Testigo ==
    /\ ult.op = "carrito.agregar_producto" /\ ult.ret
    /\ Len(carritos[ult.args[1]]) = 2
    /\ carritos[ult.args[1]][1].producto = ult.args[2]
    /\ carritos[ult.args[1]][1].cantidad > ult.args[3]

\* the stock of every product, in catalogue order
Stocks(prods) == [k \in 1..Len(prods) |-> prods[k].stock]

\* C21: agregar_producto (accepted or refused), eliminar_producto and
\* vaciar_carrito leave every stock as it was; of the operations of the cart and
\* of the store, only crear_pedido changes the stock of a product (the other
\* changes are the caller's own calls of Producto.aumentar_stock).
C21_CarritoNoTocaStock ==
    [][/\ (Es("carrito.agregar_producto") \/ Es("eliminar_producto") \/ Es("vaciar_carrito"))
          => productos' = productos
       /\ (\E k \in 1..Len(productos) : productos'[k].stock # productos[k].stock)
          => (Es("crear_pedido") \/ Es("aumentar_stock"))
       /\ Es("tienda.agregar_producto")
          => Stocks(SubSeq(productos', 1, Len(productos))) = Stocks(productos)
      ]_vars

\* a line has just been taken out of a cart, after a checkout took stock
C21_Testigo ==
    /\ ult.op = "eliminar_producto" /\ ult.ret
    /\ pedidos # <<>>
    /\ \E k \in 1..Len(productos) : productos[k].stock < 2

\* the ids of the orders made so far, in the registry and outside it
IdsPedidos ==
    {pedidos[o].id_pedido : o \in 1..Len(pedidos)}
    \cup {sueltos[o].id_pedido : o \in 1..Len(sueltos)}

C23_TransaccionesNoSeBorran ==
    [][/\ Len(prestamos') >= Len(prestamos)
       /\ \A i \in 1..Len(prestamos) :
             prestamos'[i].id_prestamo = prestamos[i].id_prestamo
       /\ Len(reservas') >= Len(reservas)
       /\ \A i \in 1..Len(reservas) :
             reservas'[i].id_reserva = reservas[i].id_reserva
       /\ Len(pedidos') >= Len(pedidos)
       /\ \A i \in 1..Len(pedidos) :
             pedidos'[i].id_pedido = pedidos[i].id_pedido
       /\ Len(multas') >= Len(multas)
       /\ \A i \in 1..Len(multas) :
             multas'[i].id_multa = multas[i].id_multa
      ]_vars

\* the first of two fines has just been paid, on a loan that was returned: both
\* fines and the loan are still in their lists
C23_Testigo ==
    /\ ult.op = "pagar" /\ ult.args[1] = 1
    /\ Len(multas) = 2 /\ multas[1].pagada
    /\ \E i \in 1..Len(prestamos) : prestamos[i].fecha_devolucion # NoFecha

\* two characters are the same letter, whatever their case
MismaLetra(c, d) == c = d \/ {c, d} \in {{"a", "A"}, {"b", "B"}}

\* q occurs in t as a substring, whatever the case of the letters
Coincide(t, q) ==
    \E k \in 0..Len(t) :
        /\ k + Len(q) <= Len(t)
        /\ \A i \in 1..Len(q) : MismaLetra(t[k + i], q[i])

\* the elements of the catalogue whose title or name matches q
Coincidencias(q) ==
    {i \in 1..Len(libros) : Coincide(libros[i].titulo, q)}
    \cup {i \in 1..Len(productos) : Coincide(productos[i].nombre, q)}

\* C24: buscar_libro(q) and buscar_producto_por_nombre(q) return the first
\* element, in insertion order, whose title or name contains q as a substring
\* whatever the case, return None exactly when there is none, and change no state.
C24_BusquedaPrimeraCoincidencia ==
    [][(Es("buscar_libro") \/ Es("buscar_producto_por_nombre"))
       => (/\ UNCHANGED <<programa, hist, varsB, varsH, varsT>>
           /\ ult'.ret = 0 <=> Coincidencias(ult'.args[1]) = {}
           /\ ult'.ret # 0 =>
                 /\ ult'.ret \in Coincidencias(ult'.args[1])
                 /\ \A j \in 1..(ult'.ret - 1) : j \notin Coincidencias(ult'.args[1]))]_vars

\* a lookup has just returned the second of three elements: the first does not
\* match, the third matches too, and the second matches only when the case of
\* the letters is ignored
C24_Testigo ==
    /\ ult.op \in {"buscar_libro", "buscar_producto_por_nombre"}
    /\ ult.ret = 2
    /\ Coincidencias(ult.args[1]) = {2, 3}
    /\ LET t == IF ult.op = "buscar_libro" THEN libros[2].titulo ELSE productos[2].nombre
       IN  ~contiene(t, ult.args[1])

\* the reservations of room k that are in state confirmada
Confirmadas(k) ==
    {r \in 1..Len(reservas) :
        reservas[r].habitacion = k /\ reservas[r].estado = "confirmada"}

\* C25: each room has at most one reservation in state confirmada, and its
\* disponible flag is false exactly when it has one.
C25_SinDobleReserva ==
    \A k \in 1..Len(habitaciones) :
        /\ Cardinality(Confirmadas(k)) <= 1
        /\ ~habitaciones[k].disponible <=> Confirmadas(k) # {}

\* the loans of the book isbn that have no return timestamp
PrestamosSinDevolver(isbn) ==
    {j \in 1..Len(prestamos) :
        prestamos[j].libro = isbn /\ prestamos[j].fecha_devolucion = NoFecha}

\* the copies of isbn on the shelf plus the copies of isbn that are out on loan
CopiasEnTotal(isbn) ==
    (IF PosLibro(isbn) # 0 THEN libros[PosLibro(isbn)].numero_copias ELSE 0)
        + Cardinality(PrestamosSinDevolver(isbn))

\* C26: copies are conserved. For each ISBN, the book's numero_copias plus the
\* number of its loans without a return timestamp starts at 0, grows by n on
\* agregar_libro of n copies of that ISBN and is left as it was by every other
\* call: it always equals the number of copies registered through agregar_libro.
C26_CopiasConservadas ==
    /\ (llamadas = 0 => \A i \in ISBN : CopiasEnTotal(i) = 0)
    /\ [][\A i \in ISBN :
            CopiasEnTotal(i)' =
                CopiasEnTotal(i)
                    + (IF Es("agregar_libro") /\ ult'.args[1] = i
                       THEN ult'.args[2] ELSE 0)]_vars

\* a copy is added to an ISBN that has one loan returned and one loan still out
C26_Testigo ==
    /\ ult.op = "agregar_libro"
    /\ ult.args[2] = 1
    /\ PrestamosSinDevolver(ult.args[1]) # {}
    /\ \E j \in 1..Len(prestamos) :
          prestamos[j].libro = ult.args[1] /\ prestamos[j].fecha_devolucion # NoFecha

\* C27: the stored state of a book agrees with its copy count: estado is
\* prestado exactly when numero_copias = 0, disponible exactly when it is > 0.
C27_EstadoSegunCopias ==
    \A k \in 1..Len(libros) :
        /\ libros[k].estado = "prestado" <=> libros[k].numero_copias = 0
        /\ libros[k].estado = "disponible" <=> libros[k].numero_copias > 0

\* C28: every accepted reservation spans at least one night, and so costs more
\* than 0 when the nightly price of its room is more than 0.
C28_AlMenosUnaNoche ==
    \A r \in 1..Len(reservas) :
        /\ calcular_noches(reservas[r]) >= 1
        /\ habitaciones[reservas[r].habitacion].precio_noche > 0
              => calcular_costo_total(reservas[r]) > 0

\* C29: after a CarritoCompras.agregar_producto that returns True, the quantity
\* of the line of that product in the cart is at most the stock the product
\* had at the time of the call.
C29_CarritoDentroDelStock ==
    [][Es("carrito.agregar_producto") /\ ult'.ret =>
        LET c == ult'.args[1]
            k == ult'.args[2]
        IN  \A i \in 1..Len(carritos'[c]) :
                carritos'[c][i].producto = k
                    => carritos'[c][i].cantidad <= productos[k].stock]_vars

====
